---- MODULE Spec2Model ----
(***************************************************************************)
(* A model of the query evaluator of lib/query.js: the translation of the  *)
(* query parameters into cursors (QueryCursors.constructor, PKQuery,       *)
(* IndexQuery, ScanQuery), the IndexedDB cursors those run on, and the     *)
(* callback-driven merge join of query().                                  *)
(*                                                                         *)
(* Encoding of JavaScript values.  A string is a sequence of characters,   *)
(* a character a number >= 1 (1 is 'a', 2 is 'b').  undefined is the       *)
(* one-element sequence <<0>>, which is no string.  '' is <<>>.            *)
(***************************************************************************)
EXTENDS Integers, Sequences, FiniteSets, TLC

\* ------------------------------------------------------------ bounds
\* The largest number of records in the object store of a query without
\* paging parameters.
MaxRecs == 2
\* The largest value given to $from, $to and $limit.
MaxPage == 2
\* The largest number of filter parameters of a query.
MaxFilters == 2

\* ------------------------------------------------------------ values
Undefined == <<0>>

\* JavaScript truthiness of a string-or-undefined value: undefined and ''
\* are falsy.
Truthy(v) == v # Undefined /\ v # <<>>

Min2(a, b) == IF a <= b THEN a ELSE b

\* indexedDB.cmp on two string keys: -1, 0 or 1 by the lexicographic order.
RECURSIVE cmp(_, _)
cmp(a, b) ==
    IF a = <<>> /\ b = <<>> THEN 0
    ELSE IF a = <<>> THEN -1
    ELSE IF b = <<>> THEN 1
    ELSE IF Head(a) < Head(b) THEN -1
    ELSE IF Head(a) > Head(b) THEN 1
    ELSE cmp(Tail(a), Tail(b))

\* String.prototype.startsWith.
startsWith(s, p) ==
    /\ Len(p) <= Len(s)
    /\ SubSeq(s, 1, Len(p)) = p

\* The string a value is coerced to by ''+value: a string is itself,
\* undefined is 'undefined' (written with the characters 21, 14, 4, ...).
StrUndefined == <<21, 14, 4, 5, 6, 9, 14, 5, 4>>
ToStr(v) == IF v = Undefined THEN StrUndefined ELSE v

\* ------------------------------------------------------------ the store
\* The schema of the tests: store 'files', primary key path 'pk', one
\* secondary index 'group' on the path 'group'.  A path is the sequence of
\* its dot-separated segments.
keyPath == <<"pk">>
indexNames == {<<"group">>}
TitlePath == <<"value", "title">>

\* The primary keys, index keys and property values records are made of.
PKs == {<<>>, <<1>>, <<1, 2>>, <<2>>}
Groups == {<<1>>, <<1, 2>>, <<2>>, Undefined}
Titles == {<<1>>, <<2>>, Undefined}

\* A record: its primary key, its value at 'group' and its value at
\* 'value.title' (Undefined when the path does not resolve).
Records == [pk : PKs, group : Groups, title : Titles]

\* makePathGetter(path)(row): the value at a dotted path of a record.
getPath(row, path) ==
    IF path = <<"pk">> THEN row.pk
    ELSE IF path = <<"group">> THEN row.group
    ELSE IF path = TitlePath THEN row.title
    ELSE Undefined

\* ------------------------------------------------------------ cursors
\* IDBKeyRange: both bounds inclusive, Undefined for an open side.
\* IDBKeyRange.bound, lowerBound, upperBound and only (a plain key as term).
bound(lo, hi) == [lo |-> lo, hi |-> hi]
lowerBound(lo) == [lo |-> lo, hi |-> Undefined]
upperBound(hi) == [lo |-> Undefined, hi |-> hi]
only(v) == [lo |-> v, hi |-> v]
NullTerm == [lo |-> Undefined, hi |-> Undefined]

InRange(k, term) ==
    /\ term.lo = Undefined \/ cmp(term.lo, k) <= 0
    /\ term.hi = Undefined \/ cmp(k, term.hi) <= 0

PKLess(r1, r2) == cmp(r1.pk, r2.pk) < 0

\* The order of an index: by index key, then by primary key.
IndexLess(r1, r2) ==
    \/ cmp(r1.group, r2.group) < 0
    \/ cmp(r1.group, r2.group) = 0 /\ cmp(r1.pk, r2.pk) < 0

\* The records of a set as a sequence in primary key order.
RECURSIVE SortPK(_)
SortPK(S) ==
    IF S = {} THEN <<>>
    ELSE LET m == CHOOSE x \in S : \A y \in S \ {x} : PKLess(x, y)
         IN  <<m>> \o SortPK(S \ {m})

\* The records of a set as a sequence in the order of the index.
RECURSIVE SortIndex(_)
SortIndex(S) ==
    IF S = {} THEN <<>>
    ELSE LET m == CHOOSE x \in S : \A y \in S \ {x} : IndexLess(x, y)
         IN  <<m>> \o SortIndex(S \ {m})

\* objStore.openCursor( term ): the records whose primary key is in the
\* range, in primary key order.
idbOpenPK(objStore, term) ==
    SortPK({r \in objStore : InRange(r.pk, term)})

\* objStore.index( index ).openCursor( term ): the records that have a key
\* on the index within the range, in the order of the index.
idbOpenIndex(objStore, index, term) ==
    SortIndex({r \in objStore : getPath(r, index) # Undefined
                                /\ InRange(getPath(r, index), term)})

\* ------------------------------------------------------------ Query objects
\* A Query object (PKQuery, IndexQuery or ScanQuery).  index, from, to,
\* prefix, value are the fields the constructor sets; mode and term those
\* initKeyRange sets; match is the filter function initScanMatch builds (its
\* name, with the terms it closes over).  rows is the sequence of records the
\* IndexedDB cursor of the query's request runs over (set when the cursor
\* is opened), pos the position of that cursor in it, and cursor is
\* this.cursor: "undefined" before the first success event, "cursor" when
\* the request's result is the cursor, "null" when it is null.
NoMatch ==
    [fn |-> "none", from |-> Undefined, to |-> Undefined, prefix |-> Undefined,
     value |-> Undefined]

\* Query.constructor: this.index = index; this[test] = value.
NewQuery(kind, index, test, value) ==
    [ kind   |-> kind,
      index  |-> index,
      from   |-> IF test = "from" THEN value ELSE Undefined,
      to     |-> IF test = "to" THEN value ELSE Undefined,
      prefix |-> IF test = "prefix" THEN value ELSE Undefined,
      value  |-> IF test = "value" THEN value ELSE Undefined,
      mode   |-> "undefined",
      term   |-> NullTerm,
      match  |-> NoMatch,
      rows   |-> <<>>,
      pos    |-> 0,
      cursor |-> "undefined" ]

\* query[name] for the four test names; any other name is a property the
\* evaluator never reads.
Field(query, name) ==
    CASE name = "from" -> query.from
      [] name = "to" -> query.to
      [] name = "prefix" -> query.prefix
      [] name = "value" -> query.value
      [] OTHER -> Undefined

SetField(query, name, v) ==
    CASE name = "from" -> [query EXCEPT !.from = v]
      [] name = "to" -> [query EXCEPT !.to = v]
      [] name = "prefix" -> [query EXCEPT !.prefix = v]
      [] name = "value" -> [query EXCEPT !.value = v]
      [] OTHER -> query

\* Whether initKeyRange and initScanMatch throw 'Illegal query state': none
\* of from, to, prefix, value is truthy.
IllegalQueryState(query) ==
    ~ (Truthy(query.from) \/ Truthy(query.to) \/ Truthy(query.prefix)
       \/ Truthy(query.value))

\* Query.initKeyRange.
initKeyRange(query) ==
    IF Truthy(query.from) /\ Truthy(query.to)
    THEN [query EXCEPT !.mode = "range", !.term = bound(query.from, query.to)]
    ELSE IF Truthy(query.from)
    THEN [query EXCEPT !.mode = "range", !.term = lowerBound(query.from)]
    ELSE IF Truthy(query.to)
    THEN [query EXCEPT !.mode = "range", !.term = upperBound(query.to)]
    ELSE IF Truthy(query.prefix)
    THEN [query EXCEPT !.mode = "prefix", !.term = lowerBound(query.prefix)]
    ELSE [query EXCEPT !.mode = "value", !.term = only(query.value)]

\* ScanQuery.initScanMatch: the filter function, closing over the terms as
\* they are when the query is constructed.
initScanMatch(query) ==
    LET fn == IF Truthy(query.from) /\ Truthy(query.to) THEN "rangeFilter"
              ELSE IF Truthy(query.from) THEN "lowerBoundFilter"
              ELSE IF Truthy(query.to) THEN "upperBoundFilter"
              ELSE IF Truthy(query.prefix) THEN "prefixFilter"
              ELSE "valueFilter"
    IN  [query EXCEPT !.match = [fn |-> fn, from |-> query.from, to |-> query.to,
                                 prefix |-> query.prefix, value |-> query.value]]

\* this.match( row ) of a ScanQuery.  A comparison (>=, <=) with undefined
\* is false.
Match(query, row) ==
    LET v == getPath(row, query.index)
        m == query.match
    IN  CASE m.fn = "rangeFilter" ->
               v # Undefined /\ cmp(v, m.from) >= 0 /\ cmp(v, m.to) <= 0
          [] m.fn = "lowerBoundFilter" -> v # Undefined /\ cmp(v, m.from) >= 0
          [] m.fn = "upperBoundFilter" -> v # Undefined /\ cmp(v, m.to) <= 0
          [] m.fn = "prefixFilter" -> startsWith(ToStr(v), m.prefix)
          [] m.fn = "valueFilter" -> m.value = v
          [] OTHER -> FALSE

\* new PKQuery, new IndexQuery, new ScanQuery.
PKQuery(index, test, value) == initKeyRange(NewQuery("pk", index, test, value))
IndexQuery(index, test, value) == initKeyRange(NewQuery("index", index, test, value))
ScanQuery(index, test, value) == initScanMatch(NewQuery("scan", index, test, value))

\* The rows the cursor of a query's request runs over: cx.openPK( term ),
\* cx.openIndex( index, term ), and cx.openPK( null ) for a scan.
Rows(objStore, query) ==
    CASE query.kind = "pk" -> idbOpenPK(objStore, query.term)
      [] query.kind = "index" -> idbOpenIndex(objStore, query.index, query.term)
      [] OTHER -> idbOpenPK(objStore, NullTerm)

\* ------------------------------------------------------------ parameters
\* The query parameters.  filters lists the filter parameters (the keys
\* that do not start with '$') in the order of the object's keys: index and
\* test are the two parts key.split('$') gives (test is "" when the key has
\* no '$'), value the parameter's value.  $from, $to and $limit are
\* [k, n]: k = "undefined" when the parameter is absent, "number" when it
\* is the number n (a plain object), "string" when it is the decimal string
\* of n (URL parameters).  join is $join, "undefined" when absent.
NoPage == [k |-> "undefined", n |-> 0]
Number(n) == [k |-> "number", n |-> n]
String(n) == [k |-> "string", n |-> n]

\* When query() is called with a URL-encoded string, string is TRUE and
\* entries is the list of the [index, test, value] entries of
\* new URLSearchParams( params ) whose names do not start with '$', in the
\* order of the string; a name can occur several times.  filters is then
\* set by the conversion to a plain object.

\* URLSearchParams.get( key ): the value of the first entry with the name.
URLSearchParamsGet(entries, index, test) ==
    LET i == CHOOSE i \in DOMAIN entries :
                 /\ entries[i].index = index /\ entries[i].test = test
                 /\ \A j \in 1..(i - 1) :
                        ~ (entries[j].index = index /\ entries[j].test = test)
    IN  entries[i].value

\* _params[key] = value: a new property comes last, the value of a
\* property the object has is replaced in its place.
SetProperty(obj, index, test, value) ==
    IF \E i \in DOMAIN obj : obj[i].index = index /\ obj[i].test = test
    THEN [i \in DOMAIN obj |->
            IF obj[i].index = index /\ obj[i].test = test
            THEN [obj[i] EXCEPT !.value = value] ELSE obj[i]]
    ELSE Append(obj, [index |-> index, test |-> test, value |-> value])

\* for( const key of params.keys() ) _params[key] = params.get( key ), from
\* the n-th entry on.
RECURSIVE ToPlainObject(_, _, _)
ToPlainObject(entries, n, obj) ==
    IF n > Len(entries) THEN obj
    ELSE LET e == entries[n]
         IN  ToPlainObject(entries, n + 1,
                 SetProperty(obj, e.index, e.test,
                             URLSearchParamsGet(entries, e.index, e.test)))

\* Lines 40-52 of query(): a string becomes a plain object, an object is
\* left as it is.
Convert(p) ==
    IF p.string THEN [p EXCEPT !.filters = ToPlainObject(p.entries, 1, <<>>)]
    ELSE p

\* Truthiness of a control value: undefined and the number 0 are falsy; a
\* non-empty string, '0' included, is truthy.
TruthyCtl(c) == c.k = "string" \/ (c.k = "number" /\ c.n # 0)

\* const { $join = 'and' } = params.
JoinOf(p) == IF p.join = "undefined" THEN "and" ELSE p.join

\* ------------------------------------------------------------ QueryCursors
\* const testPairs = { to, from } with to = 'to' and from = 'from': the
\* object maps each of the two names to itself.  "" stands for undefined.
testPairs(test) ==
    IF test = "to" THEN "to"
    ELSE IF test = "from" THEN "from"
    ELSE ""

\* The position of the first query of the list that queries.find accepts,
\* 0 when there is none.
FindPair(qs, index, test, pair) ==
    LET hits == {i \in 1..Len(qs) :
                    /\ qs[i].index = index
                    /\ Field(qs[i], pair) # Undefined
                    /\ Field(qs[i], test) = Undefined}
    IN  IF hits = {} THEN 0 ELSE CHOOSE i \in hits : \A j \in hits : i <= j

\* A classification that never consults the index names of the store.
ClassifyWithoutIndexes(index, test, value) ==
    IF index = keyPath THEN PKQuery(index, test, value)
    ELSE ScanQuery(index, test, value)

\* The classification of a filter: a PKQuery when the name is the key path
\* of the store, an IndexQuery when it names an index, else a ScanQuery.
Classify(index, test, value) ==
    IF index = keyPath THEN PKQuery(index, test, value)
    ELSE IF index \in indexNames THEN IndexQuery(index, test, value)
    ELSE ScanQuery(index, test, value)

\* One turn of the constructor's loop over the parameters.  acc is
\* [queries, threw]: the list of queries so far and whether a constructor
\* has thrown.
AddFilter(acc, f) ==
    LET test == IF f.test = "" THEN "value" ELSE f.test
        pair == testPairs(test)
        hit  == IF pair = "" THEN 0 ELSE FindPair(acc.queries, f.index, test, pair)
        iq   == NewQuery("pk", f.index, test, f.value)
    IN  IF acc.threw THEN acc
        ELSE IF hit # 0
        THEN [acc EXCEPT !.queries[hit] = SetField(@, test, f.value)]
        ELSE IF IllegalQueryState(iq) THEN [acc EXCEPT !.threw = TRUE]
        ELSE [acc EXCEPT !.queries = Append(@, Classify(f.index, test, f.value))]

\* new QueryCursors( cx, params ).
RECURSIVE QueryCursors(_, _)
QueryCursors(filters, acc) ==
    IF filters = <<>> THEN acc
    ELSE QueryCursors(Tail(filters), AddFilter(acc, Head(filters)))

\* The key of the cursor in place of its primary key: the index key for a
\* cursor on an index.
primaryKeyIsKey(query) ==
    IF query.kind = "index"
    THEN getPath(query.rows[query.pos], query.index)
    ELSE query.rows[query.pos].pk

\* cursor.primaryKey and cursor.key of the row a query's cursor is on.
primaryKey(query) == query.rows[query.pos].pk
cursorKey(query) ==
    IF query.kind = "index"
    THEN getPath(query.rows[query.pos], query.index)
    ELSE query.rows[query.pos].pk

\* A cursor that is complete only once it is exhausted.
isCompleteWhenExhausted(query) == query.cursor # "cursor"

\* Query.isComplete.
isComplete(query) ==
    IF query.mode = "prefix"
    THEN \/ query.cursor # "cursor"
         \/ ~ startsWith(cursorKey(query), query.prefix)
    ELSE query.cursor # "cursor"

\* this.cursors of increment: the positions of the queries that are not
\* complete, sorted (stably) by the primary key their cursors are on.
RECURSIVE InsertSorted(_, _, _)
InsertSorted(qs, sorted, i) ==
    IF sorted = <<>> THEN <<i>>
    ELSE IF cmp(primaryKey(qs[i]),
                primaryKey(qs[Head(sorted)])) < 0
    THEN <<i>> \o sorted
    ELSE <<Head(sorted)>> \o InsertSorted(qs, Tail(sorted), i)

RECURSIVE SortCursors(_, _)
SortCursors(qs, n) ==
    IF n = 0 THEN <<>>
    ELSE LET rest == SortCursors(qs, n - 1)
         IN  IF isComplete(qs[n]) THEN rest
             ELSE InsertSorted(qs, rest, n)

ActiveCursors(qs) == SortCursors(qs, Len(qs))

\* All cursors but one are complete.
allButOneComplete(cursors) == Len(cursors) <= 1

\* allComplete, anyComplete, allKeysMatch, lowestPrimaryKey.
allComplete(cursors) == Len(cursors) = 0

\* A test that holds only when every cursor is complete.
anyCompleteWhenAll(cursors, qs) == Len(cursors) = 0

anyComplete(cursors, qs) == Len(cursors) < Len(qs)
allKeysMatch(qs, cursors) ==
    \A i \in 2..Len(cursors) :
        primaryKey(qs[cursors[i]]) = primaryKey(qs[cursors[i - 1]])
lowestPrimaryKey(qs, cursors) == primaryKey(qs[cursors[1]])

\* QueryCursors.increment: the match (Undefined when there is none), the
\* number of cursors continued, the set of their positions, and whether
\* the call throws 'Bad query join'.
Increment(match, expect, continued, threw) ==
    [match |-> match, expect |-> expect, continued |-> continued, threw |-> threw]

increment(qs, join) ==
    LET cursors == ActiveCursors(qs)
        all == {cursors[i] : i \in 1..Len(cursors)}
    IN  IF join = "or"
        THEN IF allComplete(cursors) THEN Increment(Undefined, 0, {}, FALSE)
             ELSE Increment(lowestPrimaryKey(qs, cursors), 1,
                            {cursors[1]}, FALSE)
        ELSE IF join = "and"
        THEN IF anyComplete(cursors, qs) THEN Increment(Undefined, 0, {}, FALSE)
             ELSE IF allKeysMatch(qs, cursors)
             THEN Increment(lowestPrimaryKey(qs, cursors),
                            Len(cursors), all, FALSE)
             ELSE Increment(Undefined, 1, {cursors[1]}, FALSE)
        ELSE Increment(Undefined, 0, {}, TRUE)

\* ------------------------------------------------------------ formatting
\* idbRead( objStore, key ): objStore.get( key ), the record of the key.
idbRead(objStore, key) == CHOOSE r \in objStore : r.pk = key

\* idbReadAll( objStore, keys ): the records of the keys, in their order.
idbReadAll(objStore, keys) ==
    [i \in DOMAIN keys |-> idbRead(objStore, keys[i])]

\* The lookup with every key mapped to the first object read.
LookupFirst(keys, objects) ==
    { [key |-> keys[i], object |-> objects[1]] : i \in DOMAIN keys }

\* results.forEach( ( key, idx ) => lookup[key] = objects[idx] ): a JS
\* object as the set of its [key, object] properties.  A later assignment
\* to a key replaces an earlier one.
Lookup(keys, objects) ==
    { [key |-> keys[i], object |-> objects[i]] :
        i \in {i \in DOMAIN keys : \A j \in DOMAIN keys : keys[j] = keys[i] => j <= i} }

\* comparator( path )( o1, o2 ).  v1 < v2 and v1 > v2 are both false when
\* one of the values is undefined.
comparator(path, o1, o2) ==
    LET v1 == getPath(o1, path)
        v2 == getPath(o2, path)
    IN  IF v1 = Undefined \/ v2 = Undefined THEN 0 ELSE cmp(v1, v2)

\* Whether the comparator is a consistent comparison function for the
\* objects (ECMAScript, Array.prototype.sort): its 'equal' and 'less than'
\* are transitive.
ConsistentComparator(path, objects) ==
    \A i, j, k \in DOMAIN objects :
        LET ij == comparator(path, objects[i], objects[j])
            jk == comparator(path, objects[j], objects[k])
            ik == comparator(path, objects[i], objects[k])
        IN  /\ (ij = 0 /\ jk = 0) => ik = 0
            /\ (ij < 0 /\ jk < 0) => ik < 0

\* A stable sort by the comparator: each object is inserted after the
\* objects that do not compare greater.
RECURSIVE InsertObject(_, _, _)
InsertObject(path, sorted, o) ==
    IF sorted = <<>> THEN <<o>>
    ELSE IF comparator(path, o, Head(sorted)) < 0 THEN <<o>> \o sorted
    ELSE <<Head(sorted)>> \o InsertObject(path, Tail(sorted), o)

RECURSIVE StableSort(_, _, _)
StableSort(path, objects, n) ==
    IF n = 0 THEN <<>>
    ELSE InsertObject(path, StableSort(path, objects, n - 1), objects[n])

\* The rearrangements of a list.
Rearrangements(objects) ==
    LET n == Len(objects)
    IN  { [i \in 1..n |-> objects[f[i]]] :
            f \in {f \in [1..n -> 1..n] : \A i, j \in 1..n : f[i] = f[j] => i = j} }

\* objects.sort( comparator( $orderBy ) ): the sorted list when the
\* comparator is consistent; with an inconsistent comparator the order is
\* implementation-defined, any rearrangement.
SortOutcomes(path, objects) ==
    IF ConsistentComparator(path, objects)
    THEN {StableSort(path, objects, Len(objects))}
    ELSE Rearrangements(objects)

\* The value query() returns: kind is "none" before it returns, "keys" for
\* the list of keys, "objects" for the list of objects, "lookup" for the
\* key -> object map.
Ret(kind, keys, objects, lookup) ==
    [kind |-> kind, keys |-> keys, objects |-> objects, lookup |-> lookup]
NoRet == Ret("none", <<>>, <<>>, {})

\* The formatting without the 'lookup' format: the list of objects instead.
FormattedNoLookup(p, keys, objects) ==
    IF p.format = "keys" THEN {Ret("keys", keys, <<>>, {})}
    ELSE {Ret("objects", <<>>, objects, {})}

\* The values query() can return for the keys of the merge and the objects
\* read for them (lines 130-155): the keys as they are for $format=keys,
\* the lookup for $format=lookup, else the objects, sorted when $orderBy
\* is set.
Formatted(p, keys, objects) ==
    IF p.format = "keys" THEN {Ret("keys", keys, <<>>, {})}
    ELSE IF p.format = "lookup"
    THEN {Ret("lookup", <<>>, <<>>, Lookup(keys, objects))}
    ELSE IF p.orderBy # <<>>
    THEN {Ret("objects", <<>>, o, {}) : o \in SortOutcomes(p.orderBy, objects)}
    ELSE {Ret("objects", <<>>, objects, {})}

\* ------------------------------------------------------------ state
\* Two invocations of query() on one object store.
QIds == {1, 2}

VARIABLES
    store,      \* the records of the object store
    serial,     \* whether the caller awaits query 1 before it calls query 2
    params,     \* params[q]: the parameters query q is called with
    pc,         \* pc[q]: "idle" before the call, "running" while the promise
                \* of the merge is pending, "resolved" once it is resolved,
                \* "rejected" once it is rejected, "hung" when the promise
                \* executor has thrown and the promise can never settle
    queries,    \* queries[q]: cursors.queries, the list of Query objects
    req,        \* req[q][i]: a success event of the i-th query's request
                \* is outstanding
    pending,    \* pending[q]: the number of cursors the merge waits for
    prevKey,    \* prevKey[q]: the previously matched primary key
    count,      \* count[q]: the number of matches found
    results,    \* results[q]: the result list, an array of primary keys
    ret,        \* ret[q]: the value query() has returned
    cx,         \* cx[q]: the connection to the object store: "none" before
                \* idbConnect, "open" once connected, "closed" once closed
    cancelled,  \* cancelled[q]: the caller has signalled that it no longer
                \* wants the result of query q
    failed      \* failed[q]: a cursor request of query q has reported an
                \* error

vars == <<store, serial, params, pc, queries, req, pending, prevKey, count,
          results, ret, cx, cancelled, failed>>

\* query() has returned or thrown: the promise it returns is settled.
Returned(q) == ret[q].kind # "none"
Settled(q) == Returned(q) \/ pc[q] = "rejected"

\* A null query that is not seen to be one.
isNullNever(qc) == FALSE

\* QueryCursors.isNull.
isNull(qc) == Len(qc.queries) = 0

\* cursors.open: openCursor of each query opens its request;
\* ScanQuery.openCursor sets this.mode = 'scan'.
Open(objStore, qs) ==
    [i \in DOMAIN qs |->
        [qs[i] EXCEPT !.rows = Rows(objStore, qs[i]),
                      !.mode = IF qs[i].kind = "scan" THEN "scan" ELSE @]]

\* A count of one more than the number of cursors.
CountAndOne(qc) == Len(qc.queries) + 1

\* A count of one whatever the number of cursors.
CountOne(qc) == 1

\* QueryCursors.count: the number of cursors in the query.
Count(qc) == Len(qc.queries)

\* One closure for every invocation.
ClosureShared(q) == 1

\* The closure of the promise executor of invocation q, which holds its
\* results, prevKey, count and pending (lines 61-74): each invocation has
\* its own.
Closure(q) == q

\* query(): from the construction of the cursors to cursors.open.
Query(q) ==
    /\ pc[q] = "idle"
    /\ serial /\ q = 2 => Settled(1)
    /\ params' = [params EXCEPT ![q] = Convert(@)]
    /\ LET qc == QueryCursors(Convert(params[q]).filters,
                              [queries |-> <<>>, threw |-> FALSE])
           n  == Len(qc.queries)
           opened == Open(store, qc.queries)
       IN  IF qc.threw
           THEN \* The async promise executor throws: nothing settles the promise.
                /\ pc' = [pc EXCEPT ![q] = "hung"]
                /\ UNCHANGED <<queries, req, pending>>
           ELSE IF isNull(qc)
           THEN \* cursors.isNull(): resolve( results ).
                /\ pc' = [pc EXCEPT ![q] = "resolved"]
                /\ UNCHANGED <<queries, req, pending>>
           ELSE /\ pc' = [pc EXCEPT ![q] = "running"]
                /\ queries' = [queries EXCEPT ![q] = opened]
                /\ req' = [req EXCEPT ![q] = [i \in 1..n |-> TRUE]]
                /\ pending' = [pending EXCEPT ![Closure(q)] = Count(qc)]
    \* const cx = await idbConnect( schema, store )
    /\ cx' = [cx EXCEPT ![q] = "open"]
    /\ UNCHANGED <<store, serial, prevKey, count, results, ret, cancelled, failed>>

\* The 'from' test with a strict comparison (count > $from).
PastFromStrict(p, cnt) == ~ TruthyCtl(p.from) \/ cnt > p.from.n

\* The 'to' test with a non-strict comparison (count >= $to).
PastToInclusive(p, cnt) == TruthyCtl(p.to) /\ cnt >= p.to.n

\* !$from || count >= $from: whether a match is past the 'from' limit.
PastFrom(p, cnt) == ~ TruthyCtl(p.from) \/ cnt >= p.from.n

\* $to && count > $to: past the end of the 'to' range.
PastTo(p, cnt) == TruthyCtl(p.to) /\ cnt > p.to.n

\* $limit && results.length == $limit: at the end of the result limit.
AtLimit(p, len) == TruthyCtl(p.limit) /\ len = p.limit.n

\* The current result is processed at every success event.
NonePendingAlways(n) == TRUE

\* pending == 0: no cursor is left to wait for, the current result is
\* processed.
NonePending(n) == n = 0

\* The merge waits for the cursors the step has continued even when the
\* step has resolved the promise.
PendingAfterKeepsExpect(done, expect) == expect

\* expect = -1 ("done iterating") in each branch that resolves the promise,
\* then pending = expect.
PendingAfter(done, expect) == IF done THEN -1 ELSE expect

\* One step of the merge (lines 88-116), on the Query objects qs and the
\* previous key, count and result list: the outcome of increment, whether
\* its match is a new one, the result list, count and previous key after
\* the step, and whether the step ends the iteration.
MergeStep(p, qs, prev, cnt, res) ==
    LET inc   == increment(qs, JoinOf(p))
        emit  == Truthy(inc.match) /\ inc.match # prev
        push  == emit /\ PastFrom(p, cnt)
        res1  == IF push THEN Append(res, inc.match) ELSE res
        cnt1  == IF emit THEN cnt + 1 ELSE cnt
        done  == \/ inc.expect = 0
                 \/ PastTo(p, cnt1)
                 \/ AtLimit(p, Len(res1))
    IN  [inc |-> inc, emit |-> emit, results |-> res1, count |-> cnt1,
         prevKey |-> IF emit THEN inc.match ELSE prev, done |-> done]

\* The onsuccess handler of query(), called with the Query objects qs and
\* the outstanding requests rq as the request's handler leaves them.
onsuccess(q, qs, rq) ==
    LET c == Closure(q)
    IN  IF pending[c] < 0
        THEN /\ queries' = [queries EXCEPT ![q] = qs]
             /\ req' = [req EXCEPT ![q] = rq]
             /\ UNCHANGED <<pc, pending, prevKey, count, results>>
        ELSE IF ~ NonePending(pending[c] - 1)
        THEN /\ queries' = [queries EXCEPT ![q] = qs]
             /\ req' = [req EXCEPT ![q] = rq]
             /\ pending' = [pending EXCEPT ![c] = @ - 1]
             /\ UNCHANGED <<pc, prevKey, count, results>>
        ELSE LET st  == MergeStep(params[q], qs, prevKey[c], count[c], results[c])
                 inc == st.inc
             IN  IF inc.threw
                 THEN \* catch( e ) { reject( e ) }
                      /\ queries' = [queries EXCEPT ![q] = qs]
                      /\ req' = [req EXCEPT ![q] = rq]
                      /\ pending' = [pending EXCEPT ![c] = 0]
                      /\ pc' = [pc EXCEPT ![q] = IF @ = "running" THEN "rejected" ELSE @]
                      /\ UNCHANGED <<prevKey, count, results>>
                 ELSE /\ queries' = [queries EXCEPT ![q] = qs]
                      /\ req' = [req EXCEPT ![q] =
                                    [i \in DOMAIN rq |-> rq[i] \/ i \in inc.continued]]
                      /\ results' = [results EXCEPT ![c] = st.results]
                      /\ count' = [count EXCEPT ![c] = st.count]
                      /\ prevKey' = [prevKey EXCEPT ![c] = st.prevKey]
                      /\ pending' = [pending EXCEPT ![c] =
                                        PendingAfter(st.done, inc.expect)]
                      /\ pc' = [pc EXCEPT ![q] =
                                   IF st.done /\ @ = "running" THEN "resolved" ELSE @]

\* The cursor of a query after the next event of its request: on its next
\* row, or null when no row is left.
Advance(qo) ==
    [qo EXCEPT !.pos = Min2(@ + 1, Len(qo.rows) + 1),
               !.cursor = IF qo.pos + 1 <= Len(qo.rows) THEN "cursor" ELSE "null"]

\* A handler that passes every event on to onsuccess.
SkippedNever(qo) == FALSE

\* Whether the handler of ScanQuery.openCursor keeps the event from
\* onsuccess: the cursor is on a row that does not match.
Skipped(qo) ==
    qo.kind = "scan" /\ qo.cursor = "cursor" /\ ~ Match(qo, qo.rows[qo.pos])

\* The cursor of a query at the next event its handler passes on to
\* onsuccess.
RECURSIVE Surface(_)
Surface(qo) ==
    LET qo1 == Advance(qo)
    IN  IF Skipped(qo1) THEN Surface(qo1) ELSE qo1

\* The merge of one invocation with nothing else running, from the moment
\* the requests of the cursors in continued are outstanding: their events
\* arrive, the step is taken, and so on until the promise is settled.
RECURSIVE Merge(_, _, _, _, _, _)
Merge(p, qs, continued, prev, cnt, res) ==
    LET qs1 == [i \in DOMAIN qs |-> IF i \in continued THEN Surface(qs[i]) ELSE qs[i]]
        st  == MergeStep(p, qs1, prev, cnt, res)
    IN  IF st.inc.threw THEN [pc |-> "rejected", results |-> res]
        ELSE IF st.done THEN [pc |-> "resolved", results |-> st.results]
        ELSE Merge(p, qs1, st.inc.continued, st.prevKey, st.count, st.results)

\* Lines 40-126 of query() for an invocation that runs alone: how its
\* promise ends and with what result list.
RunAlone(objStore, params0) ==
    LET p  == Convert(params0)
        qc == QueryCursors(p.filters, [queries |-> <<>>, threw |-> FALSE])
    IN  IF qc.threw THEN [pc |-> "hung", results |-> <<>>]
        ELSE IF isNull(qc) THEN [pc |-> "resolved", results |-> <<>>]
        ELSE Merge(p, Open(objStore, qc.queries), DOMAIN qc.queries,
                   Undefined, 0, <<>>)

\* A success event of the request of the i-th query of q: request.onsuccess
\* of PKQuery, IndexQuery or ScanQuery.openCursor.  The cursor is on its
\* next row, or the request's result is null when no row is left.
CursorSuccess(q, i) ==
    /\ req[q][i]
    /\ LET qo1  == Advance(queries[q][i])
           qs1  == [queries[q] EXCEPT ![i] = qo1]
       IN  IF Skipped(qo1)
           THEN \* The row does not match: cursor.continue().
                /\ queries' = [queries EXCEPT ![q] = qs1]
                /\ UNCHANGED <<pc, req, pending, prevKey, count, results>>
           ELSE onsuccess(q, qs1, [req[q] EXCEPT ![i] = FALSE])
    /\ UNCHANGED <<store, serial, params, ret, cx, cancelled, failed>>

\* query(): the formatting of the results, once the promise of the merge
\* is resolved.
Format(q) ==
    /\ pc[q] = "resolved"
    /\ ~ Returned(q)
    /\ \E r \in Formatted(params[q], results[q], idbReadAll(store, results[q])) :
           ret' = [ret EXCEPT ![q] = r]
    /\ UNCHANGED <<store, serial, params, pc, queries, req, pending, prevKey,
                   count, results, cx, cancelled, failed>>

Next ==
    \E q \in QIds :
        \/ Query(q)
        \/ \E i \in DOMAIN req[q] : CursorSuccess(q, i)
        \/ Format(q)

\* An error event of the request of the i-th query of q: request.onerror
\* is the reject function of the promise of the merge.  Rejecting a promise
\* that is already settled has no effect.
CursorError(q, i) ==
    /\ req[q][i]
    /\ req' = [req EXCEPT ![q][i] = FALSE]
    /\ failed' = [failed EXCEPT ![q] = TRUE]
    /\ pc' = [pc EXCEPT ![q] = IF @ = "running" THEN "rejected" ELSE @]
    /\ UNCHANGED <<store, serial, params, queries, pending, prevKey, count,
                   results, ret, cx, cancelled>>

\* Query q waits: for the success events of its cursors (the await of line
\* 58), or for the objects of its keys (the await of line 137, not reached
\* with $format=keys).
Waiting(q) ==
    \/ pc[q] = "running"
    \/ pc[q] = "resolved" /\ ~ Returned(q) /\ params[q].format # "keys"

\* The caller signals cancellation while query q waits.
\* query( schema, store, params ) takes no signal and nothing in it reads
\* one.
Cancel(q) ==
    /\ Waiting(q)
    /\ ~ cancelled[q]
    /\ cancelled' = [cancelled EXCEPT ![q] = TRUE]
    /\ UNCHANGED <<store, serial, params, pc, queries, req, pending, prevKey,
                   count, results, ret, cx, failed>>

\* The steps of query() together with the faults of its environment.
NextFaults ==
    \E q \in QIds :
        \/ Query(q)
        \/ \E i \in DOMAIN req[q] : CursorSuccess(q, i)
        \/ Format(q)
        \/ \E i \in DOMAIN req[q] : CursorError(q, i)
        \/ Cancel(q)

\* ------------------------------------------------------------ inputs
\* The object stores of at most n records over the primary keys pks (one
\* record per primary key), with their values at 'group' and 'value.title'
\* drawn from groups and titles.
StoresOf(n, pks, groups, titles) ==
    UNION { { { [pk |-> k, group |-> f[k][1], title |-> f[k][2]] : k \in K } :
              f \in [K -> groups \X titles] } :
            K \in {K \in SUBSET pks : Cardinality(K) <= n} }

\* The filter parameters: a name (the primary key path, the index name or
\* a property path), a test ("" for a key without '$') and a value.
Targets == {keyPath, <<"group">>, TitlePath}
Tests == {"", "prefix", "from", "to"}
FilterVals == {<<1>>}
Filters == [index : Targets, test : Tests, value : FilterVals]

\* The lists of one to MaxFilters filter parameters with distinct keys.
DistinctKeys(fs) ==
    \A i, j \in 1..Len(fs) :
        i # j => ~ (fs[i].index = fs[j].index /\ fs[i].test = fs[j].test)

RECURSIVE FilterLists(_)
FilterLists(n) ==
    IF n = 0 THEN {<<>>}
    ELSE LET shorter == FilterLists(n - 1)
         IN  shorter \cup
             { Append(fs, f) : fs \in {l \in shorter : Len(l) = n - 1},
                               f \in Filters }

AllFilterLists == {fs \in FilterLists(MaxFilters) : fs # <<>> /\ DistinctKeys(fs)}
AllStores == StoresOf(MaxRecs, PKs, {<<1>>, <<2>>}, {<<1>>, Undefined})

\* $format is "undefined" when absent; $orderBy is a path, <<>> when absent
\* (or '').
Params(filters, join, from, to, limit) ==
    [filters |-> filters, join |-> join, from |-> from, to |-> to, limit |-> limit,
     format |-> "undefined", orderBy |-> <<>>, string |-> FALSE, entries |-> <<>>]

NullParams == Params(<<>>, "undefined", NoPage, NoPage, NoPage)

\* The state before query() is called.
InitRun ==
    /\ pc = [q \in QIds |-> "idle"]
    /\ queries = [q \in QIds |-> <<>>]
    /\ req = [q \in QIds |-> <<>>]
    /\ pending = [q \in QIds |-> 0]
    /\ prevKey = [q \in QIds |-> Undefined]
    /\ count = [q \in QIds |-> 0]
    /\ results = [q \in QIds |-> <<>>]
    /\ ret = [q \in QIds |-> NoRet]
    /\ cx = [q \in QIds |-> "none"]
    /\ cancelled = [q \in QIds |-> FALSE]
    /\ failed = [q \in QIds |-> FALSE]

\* Queries without paging parameters: any store, any one to MaxFilters
\* filters, either join.  The second query is a null query.
Init ==
    /\ store \in AllStores
    /\ serial = TRUE
    /\ \E fs \in AllFilterLists, join \in {"and", "or"} :
          params = [q \in QIds |->
                      IF q = 1 THEN Params(fs, join, NoPage, NoPage, NoPage)
                      ELSE NullParams]
    /\ InitRun

Spec == Init /\ [][Next]_vars

\* ------------------------------------------------------------ paging
\* The values of $to and $limit: absent, a number, or the string '0' (a
\* string of a positive number behaves as the number does); of $from:
\* absent or a number ('0' behaves as 0 does).
FromVals == {NoPage} \cup {Number(n) : n \in 0..MaxPage}
PageVals == FromVals \cup {String(0)}

\* Stores of up to MaxPage + 1 records, so that a query can have a match
\* at every offset up to MaxPage.
PagingStores ==
    StoresOf(MaxPage + 1, {<<1>>, <<1, 2>>, <<2>>}, {<<1>>, <<2>>}, {<<1>>})

Filter(index, test, value) == [index |-> index, test |-> test, value |-> value]

\* The filters of the paged queries: every record by primary key joined
\* with the records of group 'a' (a cursor with gaps), or with every record
\* by index key.
PagingFilters ==
    { <<Filter(keyPath, "to", <<2>>), Filter(<<"group">>, "", <<1>>)>>,
      <<Filter(keyPath, "to", <<2>>), Filter(<<"group">>, "from", <<1>>)>> }

\* Query 1 with paging parameters; query 2 the same query without $from,
\* or without $from and $limit.
InitPaging ==
    /\ store \in PagingStores
    /\ serial = TRUE
    /\ \E fs \in PagingFilters, join \in {"and", "or"},
          from \in FromVals, to \in PageVals, limit \in PageVals,
          keepLimit \in BOOLEAN :
          params = [q \in QIds |->
                      IF q = 1 THEN Params(fs, join, from, to, limit)
                      ELSE Params(fs, join, NoPage, to,
                                  IF keepLimit THEN limit ELSE NoPage)]
    /\ InitRun

SpecPaging == InitPaging /\ [][Next]_vars

\* Query 1 with $to alone; query 2 the same query without it.
InitTo ==
    /\ store \in PagingStores
    /\ serial = TRUE
    /\ \E fs \in PagingFilters, join \in {"and", "or"}, to \in PageVals :
          params = [q \in QIds |->
                      IF q = 1 THEN Params(fs, join, NoPage, to, NoPage)
                      ELSE Params(fs, join, NoPage, NoPage, NoPage)]
    /\ InitRun

SpecTo == InitTo /\ [][Next]_vars

\* ------------------------------------------------------------ formats
\* The largest number of records in the store of a formatted query.
MaxSorted == 3

WithFormat(p, format, orderBy) ==
    [p EXCEPT !.format = format, !.orderBy = orderBy]

\* "records" is no format the code knows: it gives the default, as any
\* other value does.
Formats == {"undefined", "records", "keys", "lookup"}
OrderBys == {<<>>, TitlePath}

FormatStores ==
    StoresOf(MaxSorted, {<<1>>, <<1, 2>>, <<2>>}, {<<1>>, <<2>>},
             {<<1>>, <<2>>, Undefined})

\* A null query, every record by primary key, and the union of every record
\* by primary key and every record by index key.
FormatQueries ==
    { Params(<<>>, "undefined", NoPage, NoPage, NoPage),
      Params(<<Filter(keyPath, "to", <<2>>)>>, "undefined", NoPage, NoPage, NoPage),
      Params(<<Filter(keyPath, "to", <<2>>), Filter(<<"group">>, "from", <<1>>)>>,
             "or", NoPage, NoPage, NoPage) }

\* Query 1 with a format and an order; query 2 the same query with the
\* default format.
InitFormat ==
    /\ store \in FormatStores
    /\ serial = TRUE
    /\ \E p \in FormatQueries, format \in Formats, orderBy \in OrderBys :
          params = [q \in QIds |->
                      IF q = 1 THEN WithFormat(p, format, orderBy)
                      ELSE WithFormat(p, "undefined", orderBy)]
    /\ InitRun

SpecFormat == InitFormat /\ [][Next]_vars

\* ------------------------------------------------------------ errors
\* Parameters a caller can get wrong: an operator the code does not know
\* ('like'), a $join that is neither 'and' nor 'or' ('xor'), a $format that
\* is none of the documented ones ('xml'), and $to below $from.
ErrorTests == {"", "from", "like"}
ErrorFilters == [index : Targets, test : ErrorTests, value : FilterVals]
ErrorFilterLists ==
    {<<>>} \cup {<<f>> : f \in ErrorFilters}
    \cup {fs \in {<<f, g>> : f, g \in ErrorFilters} : DistinctKeys(fs)}
ErrorJoins == {"undefined", "and", "or", "xor"}
ErrorFormats == {"undefined", "keys", "xml"}
ErrorPages == {<<NoPage, NoPage>>, <<Number(MaxPage), Number(MaxPage - 1)>>}
ErrorStores == StoresOf(MaxRecs, {<<1>>, <<2>>}, {<<1>>, <<2>>}, {<<1>>})

InitErrors ==
    /\ store \in ErrorStores
    /\ serial = TRUE
    /\ \E fs \in ErrorFilterLists, join \in ErrorJoins, format \in ErrorFormats,
          page \in ErrorPages :
          params = [q \in QIds |->
                      IF q = 1
                      THEN WithFormat(Params(fs, join, page[1], page[2], NoPage),
                                      format, <<>>)
                      ELSE NullParams]
    /\ InitRun

SpecErrors == InitErrors /\ [][Next]_vars

\* ------------------------------------------------------------ joins
\* One set of filters under both joins: query 1 with 'and', query 2 with
\* 'or'.
InitJoins ==
    /\ store \in AllStores
    /\ serial = TRUE
    /\ \E fs \in AllFilterLists :
          params = [q \in QIds |->
                      IF q = 1 THEN Params(fs, "and", NoPage, NoPage, NoPage)
                      ELSE Params(fs, "or", NoPage, NoPage, NoPage)]
    /\ InitRun

SpecJoins == InitJoins /\ [][Next]_vars

\* ------------------------------------------------------------ order
Reverse(fs) == [i \in DOMAIN fs |-> fs[Len(fs) + 1 - i]]

OrderStores == StoresOf(MaxRecs, {<<1>>, <<1, 2>>, <<2>>}, {<<1>>, <<2>>}, {<<1>>})

\* Two or more filters in one order for query 1 and in the opposite order
\* for query 2.
InitOrder ==
    /\ store \in OrderStores
    /\ serial = TRUE
    /\ \E fs \in {fs \in AllFilterLists : Len(fs) >= 2}, join \in {"and", "or"} :
          params = [q \in QIds |->
                      IF q = 1 THEN Params(fs, join, NoPage, NoPage, NoPage)
                      ELSE Params(Reverse(fs), join, NoPage, NoPage, NoPage)]
    /\ InitRun

SpecOrder == InitOrder /\ [][Next]_vars

\* ------------------------------------------------------------ twice
\* Stores in which the records of group 'b', and only they, have no value
\* at 'value.title'.
TwiceStores ==
    {s \in StoresOf(MaxRecs, {<<1>>, <<1, 2>>, <<2>>}, {<<1>>, <<2>>}, {<<1>>, Undefined}) :
        \A r \in s : (r.title = Undefined) <=> (r.group = <<2>>)}

\* The lists of two filters, and the longer lists of prefix and from
\* filters.
TwiceFilterLists ==
    {fs \in AllFilterLists :
        \/ Len(fs) = 2
        \/ Len(fs) > 2 /\ \A i \in DOMAIN fs : fs[i].test \in {"prefix", "from"}}

\* One query of two or more filters run twice on an unchanged store: query
\* 2 is called with the parameters of query 1 once query 1 has returned.
\* The success events of the outstanding requests of a query arrive in any
\* order.
InitTwice ==
    /\ store \in TwiceStores
    /\ serial = TRUE
    /\ \E fs \in TwiceFilterLists, join \in {"and", "or"} :
          params = [q \in QIds |-> Params(fs, join, NoPage, NoPage, NoPage)]
    /\ InitRun

SpecTwice == InitTwice /\ [][Next]_vars

\* ------------------------------------------------------------ faults
\* Query 1 on a store of up to MaxPage + 1 records, with or without $to
\* and $limit (an early stop), returning keys or records, while cursor
\* requests may fail and the caller may cancel.  Query 2 is a null query.
FaultPages == {NoPage, Number(1)}

InitFaults ==
    /\ store \in PagingStores
    /\ serial = TRUE
    /\ \E fs \in PagingFilters, join \in {"and", "or"},
          to \in FaultPages, limit \in FaultPages, format \in {"undefined", "keys"} :
          params = [q \in QIds |->
                      IF q = 1
                      THEN WithFormat(Params(fs, join, NoPage, to, limit), format, <<>>)
                      ELSE NullParams]
    /\ InitRun

SpecFaults == InitFaults /\ [][NextFaults]_vars

\* ------------------------------------------------------------ strings
\* The entries of a query string: value and from filters on the primary
\* key and the index, with the values 'a' and 'b'.
UrlEntries == [index : {keyPath, <<"group">>}, test : {"", "from"},
               value : {<<1>>, <<2>>}]

\* The query strings of one to MaxFilters entries; a name may repeat.
RECURSIVE UrlEntryLists(_)
UrlEntryLists(n) ==
    IF n = 0 THEN {<<>>}
    ELSE LET shorter == UrlEntryLists(n - 1)
         IN  shorter \cup
             { Append(es, e) : es \in {l \in shorter : Len(l) = n - 1},
                               e \in UrlEntries }

\* query( schema, store, params ) with params a string.
StringParams(entries, join) ==
    [Params(<<>>, join, NoPage, NoPage, NoPage) EXCEPT
        !.string = TRUE, !.entries = entries]

\* Query 1 is called with a query string; query 2 is a null query.
InitUrl ==
    /\ store \in OrderStores
    /\ serial = TRUE
    /\ \E es \in UrlEntryLists(MaxFilters) \ {<<>>}, join \in {"undefined", "or"} :
          params = [q \in QIds |-> IF q = 1 THEN StringParams(es, join) ELSE NullParams]
    /\ InitRun

SpecUrl == InitUrl /\ [][Next]_vars

\* ------------------------------------------------------------ targets
\* A property path no record has a value at.
OtherPath == <<"other">>

\* Filters on the primary key, the index, a property path some records
\* have and one no record has, with the tests value, from and to.
ClassifyFilters ==
    [index : Targets \cup {OtherPath}, test : {"", "from", "to"}, value : FilterVals]

RECURSIVE ClassifyLists(_)
ClassifyLists(n) ==
    IF n = 0 THEN {<<>>}
    ELSE LET shorter == ClassifyLists(n - 1)
         IN  shorter \cup
             { Append(fs, f) : fs \in {l \in shorter : Len(l) = n - 1},
                               f \in ClassifyFilters }

\* Query 1 has one to MaxFilters of these filters, under either join; query
\* 2 is a null query.
InitClassify ==
    /\ store \in ErrorStores
    /\ serial = TRUE
    /\ \E fs \in {l \in ClassifyLists(MaxFilters) : l # <<>> /\ DistinctKeys(l)},
          join \in {"and", "or"} :
          params = [q \in QIds |->
                      IF q = 1 THEN Params(fs, join, NoPage, NoPage, NoPage)
                      ELSE NullParams]
    /\ InitRun

SpecClassify == InitClassify /\ [][Next]_vars

\* ------------------------------------------------------------ one filter
\* The values of a single filter: 'a', and 'u', the first character of the
\* string undefined is coerced to.
SingleVals == {<<1>>, <<21>>}
SingleFilters ==
    [index : Targets \cup {OtherPath}, test : Tests, value : SingleVals]

\* Query 1 has one filter, on any store; query 2 is a null query.
InitSingle ==
    /\ store \in AllStores
    /\ serial = TRUE
    /\ \E f \in SingleFilters :
          params = [q \in QIds |->
                      IF q = 1 THEN Params(<<f>>, "undefined", NoPage, NoPage, NoPage)
                      ELSE NullParams]
    /\ InitRun

SpecSingle == InitSingle /\ [][Next]_vars

\* ------------------------------------------------------------ concurrent
\* The queries that run side by side: two cursors each, on the primary key
\* and the index or on a property path and the primary key, under either
\* join.
ConcurrentFilters ==
    PagingFilters \cup
    { <<Filter(TitlePath, "", <<1>>), Filter(keyPath, "from", <<1>>)>> }

ConcurrentQueries ==
    { Params(fs, join, NoPage, NoPage, NoPage) :
        fs \in ConcurrentFilters, join \in {"and", "or"} }

\* Promise.all( queries.map( q => query( schema, store, q ) ) ): both
\* queries are called at once, and the events of their cursors arrive in
\* any order.  Query 1 may skip its first match ($from).
InitConcurrent ==
    /\ store \in TwiceStores
    /\ serial = FALSE
    /\ \E p1 \in ConcurrentQueries, p2 \in ConcurrentQueries,
          from \in {NoPage, Number(1)} :
          params = [q \in QIds |-> IF q = 1 THEN [p1 EXCEPT !.from = from] ELSE p2]
    /\ InitRun

SpecConcurrent == InitConcurrent /\ [][Next]_vars

\* ------------------------------------------------------------ progress
\* One query of one to MaxFilters filters with valid operators, joined by
\* 'and' or by 'or', with or without $limit; query 2 is a null query.
LiveFilterLists ==
    {fs \in AllFilterLists : Len(fs) = 1} \cup TwiceFilterLists

InitLive ==
    /\ store \in TwiceStores
    /\ serial = TRUE
    /\ \E fs \in LiveFilterLists, join \in {"and", "or"},
          limit \in {NoPage, Number(1)} :
          params = [q \in QIds |->
                      IF q = 1 THEN Params(fs, join, NoPage, NoPage, limit)
                      ELSE NullParams]
    /\ InitRun

\* Every cursor request whose event is outstanding eventually reports
\* success (IndexedDB delivers the events of a request in a transaction
\* that is alive), the caller makes its calls, and the async function goes
\* on once the promise it awaits is resolved.
Fairness ==
    \A q \in QIds :
        /\ WF_vars(Query(q))
        /\ WF_vars(\E i \in DOMAIN req[q] : CursorSuccess(q, i))
        /\ WF_vars(Format(q))

SpecLive == InitLive /\ [][Next]_vars /\ Fairness

\* A small family for the check of the liveness property itself: two
\* records, two filters out of a filter on the primary key, a prefix
\* filter on the index and a scan filter, both joins.
LiveSmallFilters ==
    {Filter(keyPath, "from", <<1>>), Filter(<<"group">>, "prefix", <<1>>),
     Filter(TitlePath, "", <<1>>)}

InitLiveSmall ==
    /\ store \in {st \in TwiceStores : {r.pk : r \in st} = {<<1>>, <<2>>}}
    /\ serial = TRUE
    /\ \E fs \in {l \in AllFilterLists :
                    Len(l) = 2 /\ \A i \in DOMAIN l : l[i] \in LiveSmallFilters},
          join \in {"and", "or"} :
          params = [q \in QIds |->
                      IF q = 1 THEN Params(fs, join, NoPage, NoPage, NoPage)
                      ELSE NullParams]
    /\ InitRun

SpecLiveSmall == InitLiveSmall /\ [][Next]_vars /\ Fairness

\* Every query is eventually resolved and returns.
EventuallyReturned == \A q \in QIds : <>(pc[q] = "resolved" /\ Returned(q))

\* ------------------------------------------------------------ properties
Resolved(q) == pc[q] = "resolved"

Keys(seq) == {seq[i] : i \in DOMAIN seq}
Take(seq, n) == SubSeq(seq, 1, Min2(n, Len(seq)))
Drop(seq, n) == IF n >= Len(seq) THEN <<>> ELSE SubSeq(seq, n + 1, Len(seq))
IsPrefix(s, t) == Len(s) <= Len(t) /\ SubSeq(t, 1, Len(s)) = s

StrictlyAscending(seq) ==
    \A i \in 1..(Len(seq) - 1) : cmp(seq[i], seq[i + 1]) < 0

NoDuplicates(seq) ==
    \A i, j \in DOMAIN seq : i # j => seq[i] # seq[j]

\* A query without $from, $to and $limit.
Unpaged(p) == p.from = NoPage /\ p.to = NoPage /\ p.limit = NoPage

\* What a filter asks of a record (README, 'Filters'): the record has a
\* value at the filter's name, and the value equals, starts with, is at
\* least, or is at most the filter's value.
Satisfies(row, f) ==
    LET v == getPath(row, f.index)
    IN  /\ v # Undefined
        /\ CASE f.test = "" -> v = f.value
             [] f.test = "prefix" -> startsWith(v, f.value)
             [] f.test = "from" -> cmp(v, f.value) >= 0
             [] f.test = "to" -> cmp(v, f.value) <= 0
             [] OTHER -> FALSE

\* The primary keys of the records that satisfy every filter, and of those
\* that satisfy at least one.
KeysOfAll(fs) ==
    {r.pk : r \in {r \in store : \A i \in DOMAIN fs : Satisfies(r, fs[i])}}
KeysOfAny(fs) ==
    {r.pk : r \in {r \in store : \E i \in DOMAIN fs : Satisfies(r, fs[i])}}

\* The filters are t$from and t$to, in either order, and nothing else.
FromToTests(fs) ==
    /\ Len(fs) = 2
    /\ {fs[1].test, fs[2].test} = {"from", "to"}
FromToPair(fs) == FromToTests(fs) /\ fs[1].index = fs[2].index

\* C1: the list of primary keys the merge produces is strictly ascending
\* under the store's key comparator, for any store, filters and join.
C1_ResultAscending ==
    \A q \in QIds : StrictlyAscending(results[q])

\* C2: no primary key is appended to the result list of a query more than
\* once.
C2_NoKeyTwice ==
    \A q \in QIds : NoDuplicates(results[q])

\* C3: with the 'and' join and no paging, the set of returned primary keys
\* is exactly the set of the keys of the records that satisfy every filter.
C3_AndIsIntersection ==
    \A q \in QIds :
        ( /\ Resolved(q)
          /\ params[q].filters # <<>>
          /\ JoinOf(params[q]) = "and"
          /\ Unpaged(params[q]) )
        => Keys(results[q]) = KeysOfAll(params[q].filters)

\* C4: with the 'or' join and no paging, the result is the ascending list,
\* without duplicates, of the keys of the records that satisfy at least one
\* filter.
C4_OrIsUnion ==
    \A q \in QIds :
        ( /\ Resolved(q)
          /\ params[q].filters # <<>>
          /\ JoinOf(params[q]) = "or"
          /\ Unpaged(params[q]) )
        => /\ Keys(results[q]) = KeysOfAny(params[q].filters)
           /\ StrictlyAscending(results[q])

\* C5: t$from and t$to for one target t make one query (one cursor) that
\* carries both bounds, whichever parameter comes first; from and to on
\* different targets make two.
C5_FromToOnePredicate ==
    \A q \in QIds :
        LET fs == params[q].filters
            lo == IF fs[1].test = "from" THEN fs[1].value ELSE fs[2].value
            hi == IF fs[1].test = "to" THEN fs[1].value ELSE fs[2].value
        IN  (pc[q] \in {"running", "resolved"} /\ FromToTests(fs))
            => IF fs[1].index = fs[2].index
               THEN /\ Len(queries[q]) = 1
                    /\ queries[q][1].from = lo
                    /\ queries[q][1].to = hi
               ELSE Len(queries[q]) = 2

\* C6: a query whose only filters are t$from=x and t$to=y returns exactly
\* the records whose value at t is in [x, y], under either join.
C6_FromToRange ==
    \A q \in QIds :
        ( /\ Resolved(q)
          /\ FromToPair(params[q].filters)
          /\ Unpaged(params[q]) )
        => Keys(results[q]) = KeysOfAll(params[q].filters)

\* C7: when $limit is set to n (0 included), the result never has more
\* than n entries.
C7_LimitBoundsResult ==
    \A q \in QIds :
        params[q].limit # NoPage => Len(results[q]) <= params[q].limit.n

\* Query 1 has $from; query 2 is the same query without $from (FromRef), or
\* without $from and $limit (FromLimitRef).
FromRef ==
    /\ params[1].from # NoPage
    /\ params[2] = [params[1] EXCEPT !.from = NoPage]
FromLimitRef ==
    /\ params[1].from # NoPage
    /\ params[2] = [params[1] EXCEPT !.from = NoPage, !.limit = NoPage]

\* C8 (as stated): with $from = k the first returned key is the (k+1)-th
\* key the same query returns without $from, and the remaining keys follow
\* in the same order.
C8_FromOfSameQuery ==
    (Resolved(1) /\ Resolved(2) /\ FromRef /\ results[1] # <<>>)
    => /\ Len(results[2]) > params[1].from.n
       /\ IsPrefix(results[1], Drop(results[2], params[1].from.n))

\* C8 (amended): with $from = k the result is what the same query without
\* $from and $limit returns after its first k keys: all of it when $limit
\* is absent or the number 0, its first n keys when $limit is n >= 1, and
\* a prefix of it in every case.
C8_FromSkipsFirstK ==
    (Resolved(1) /\ Resolved(2) /\ FromLimitRef)
    => LET rest  == Drop(results[2], params[1].from.n)
           limit == params[1].limit
       IN  /\ IsPrefix(results[1], rest)
           /\ ~ TruthyCtl(limit) => results[1] = rest
           /\ limit.n >= 1 => results[1] = Take(rest, limit.n)

\* Both queries are resolved, $from = 1 skipped one key of three and
\* $limit = 1 cut the rest to one key.
C8_Witness ==
    /\ Resolved(1) /\ Resolved(2) /\ FromLimitRef
    /\ params[1].from = Number(1)
    /\ params[1].limit = Number(1)
    /\ Len(results[2]) = 3
    /\ results[1] = <<results[2][2]>>

\* Query 1 has $to and neither $from nor $limit; query 2 is the same query
\* without $to.
ToRef ==
    /\ params[1].to # NoPage
    /\ params[1].from = NoPage /\ params[1].limit = NoPage
    /\ params[2] = [params[1] EXCEPT !.to = NoPage]

\* C9: with $to = t the row at offset t (from 0) of the unpaged sequence
\* of matches is the last row returned, and no match at a greater offset
\* is returned.
C9_ToIsLastOffset ==
    (Resolved(1) /\ Resolved(2) /\ ToRef)
    => /\ IsPrefix(results[1], Take(results[2], params[1].to.n + 1))
       /\ Len(results[2]) > params[1].to.n
          => /\ results[1] # <<>>
             /\ results[1][Len(results[1])] = results[2][params[1].to.n + 1]

\* C10 (as stated): with $to = t and no $from or $limit the result has at
\* most t entries.
C10_ToIsCount ==
    (Resolved(1) /\ ToRef) => Len(results[1]) <= params[1].to.n

\* C10 (amended): with $to = t and no $from or $limit the result is the
\* first t + 1 keys of the unpaged result (at most t + 1 entries); when
\* $to is the number 0 it is the whole unpaged result.
C10_ToIsEndOffset ==
    (Resolved(1) /\ Resolved(2) /\ ToRef)
    => results[1] = IF TruthyCtl(params[1].to)
                    THEN Take(results[2], params[1].to.n + 1)
                    ELSE results[2]

\* Both queries are resolved and $to = 1 cut a result of three keys to its
\* first two.
C10_Witness ==
    /\ Resolved(1) /\ Resolved(2) /\ ToRef
    /\ params[1].to = Number(1)
    /\ Len(results[2]) = 3
    /\ results[1] = Take(results[2], 2)

\* A null query: no filter parameter.
NullQuery(q) == params[q].filters = <<>>

\* C11 (as stated): a null query returns an empty list, for every $format.
C11_NullReturnsEmptyList ==
    \A q \in QIds :
        (NullQuery(q) /\ Returned(q))
        => /\ ret[q].kind \in {"keys", "objects"}
           /\ ret[q].keys = <<>> /\ ret[q].objects = <<>>

\* C11 (amended): a null query returns an empty result for every $format:
\* the empty list when $format is absent, records or keys, and the empty
\* lookup (a map without keys, not a list) when $format is lookup.
C11_NullReturnsEmpty ==
    \A q \in QIds :
        (NullQuery(q) /\ Returned(q))
        => ret[q] = CASE params[q].format = "keys" -> Ret("keys", <<>>, <<>>, {})
                      [] params[q].format = "lookup" -> Ret("lookup", <<>>, <<>>, {})
                      [] OTHER -> Ret("objects", <<>>, <<>>, {})

\* A null query with $format=lookup has returned, on a store with records.
C11_Witness ==
    /\ NullQuery(1) /\ Returned(1)
    /\ params[1].format = "lookup"
    /\ store # {}

\* C12: a null query never opens a cursor: it issues no cursor request on
\* the store, and once called its promise is resolved with no key.
C12_NullOpensNoCursor ==
    \A q \in QIds :
        NullQuery(q)
        => /\ queries[q] = <<>> /\ req[q] = <<>>
           /\ pc[q] # "idle" => (pc[q] = "resolved" /\ results[q] = <<>>)

\* A null query has returned on a store with records, without a cursor.
C12_Witness ==
    /\ NullQuery(1) /\ Returned(1)
    /\ store # {}
    /\ queries[1] = <<>>

\* C13: a query whose $join is neither 'and' nor 'or' (nor absent) fails
\* with an error and never returns a result, whatever its predicates.
C13_BadJoinFails ==
    \A q \in QIds :
        params[q].join \notin {"undefined", "and", "or"}
        => (pc[q] # "resolved" /\ ~ Returned(q))

\* C14: a parameter key with an operator other than value, prefix, from
\* and to makes the query fail with an error when the parameters are
\* parsed: the promise does not stay pending forever.
C14_UnknownOperatorFails ==
    \A q \in QIds :
        ( /\ pc[q] # "idle"
          /\ \E i \in DOMAIN params[q].filters :
                params[q].filters[i].test \notin {"", "value", "prefix", "from", "to"} )
        => pc[q] = "rejected"

\* C15: a query with a $format that is none of records, keys and lookup,
\* or with $to below $from, fails with an error and returns no result.
C15_ControlsValidated ==
    \A q \in QIds :
        ( \/ params[q].format \notin {"undefined", "records", "keys", "lookup"}
          \/ /\ params[q].from # NoPage /\ params[q].to # NoPage
             /\ params[q].to.n < params[q].from.n )
        => (pc[q] # "resolved" /\ ~ Returned(q))

\* Query 1 has $format=lookup and query 2 is the same query with the
\* default format; both have returned.
LookupAndDefault ==
    /\ Returned(1) /\ Returned(2)
    /\ params[1].format = "lookup"
    /\ params[2] = [params[1] EXCEPT !.format = "undefined"]

\* C16: for the same store and the same other parameters the keys of the
\* map returned with $format=lookup are the primary keys of the records
\* returned with the default format, and each key maps to the record that
\* has this primary key.
C16_LookupKeysAreDefaultKeys ==
    LookupAndDefault
    => /\ {e.key : e \in ret[1].lookup}
            = {ret[2].objects[i].pk : i \in DOMAIN ret[2].objects}
       /\ \A e \in ret[1].lookup : e.object \in store /\ e.object.pk = e.key
       /\ \A e, f \in ret[1].lookup : e.key = f.key => e = f

\* A lookup of at least two keys has been returned, and the default format
\* returned the records in another order than the keys' (sorted by title).
C16_Witness ==
    /\ LookupAndDefault
    /\ Cardinality(ret[1].lookup) >= 2
    /\ Len(ret[2].objects) >= 2
    /\ cmp(ret[2].objects[1].pk, ret[2].objects[2].pk) > 0

\* The objects are in non-decreasing order of their values at the path,
\* as far as they have one.
NonDecreasing(path, objects) ==
    \A i, j \in DOMAIN objects :
        ( /\ i < j
          /\ getPath(objects[i], path) # Undefined
          /\ getPath(objects[j], path) # Undefined )
        => cmp(getPath(objects[i], path), getPath(objects[j], path)) <= 0

\* Every object without a value at the path comes after every object that
\* has one.
AbsentLast(path, objects) ==
    \A i, j \in DOMAIN objects :
        (i < j /\ getPath(objects[i], path) = Undefined)
        => getPath(objects[j], path) = Undefined

\* Each of the two lists holds what the other holds, as often.
IsRearrangement(s, t) ==
    /\ Len(s) = Len(t)
    /\ \A x \in Keys(s) \cup Keys(t) :
          Cardinality({i \in DOMAIN s : s[i] = x})
              = Cardinality({i \in DOMAIN t : t[i] = x})

\* C17: with $format=keys and $orderBy=p the returned keys are in the
\* order of the values at p of the records they denote, not in primary key
\* order.
C17_KeysOrdered ==
    \A q \in QIds :
        (Returned(q) /\ params[q].format = "keys" /\ params[q].orderBy # <<>>)
        => NonDecreasing(params[q].orderBy, idbReadAll(store, ret[q].keys))

\* C18: with the default format and $orderBy=p the returned list is a
\* rearrangement of the matched records in non-decreasing order of the
\* value at p, the records without a value at p after all the others.
C18_ObjectsOrdered ==
    \A q \in QIds :
        (Returned(q) /\ ret[q].kind = "objects" /\ params[q].orderBy # <<>>)
        => /\ IsRearrangement(ret[q].objects, idbReadAll(store, results[q]))
           /\ NonDecreasing(params[q].orderBy, ret[q].objects)
           /\ AbsentLast(params[q].orderBy, ret[q].objects)

\* Query 1 is an 'and' query and query 2 the same query with $join=or,
\* both without paging and both resolved.
AndAndOr ==
    /\ Resolved(1) /\ Resolved(2)
    /\ JoinOf(params[1]) = "and" /\ params[2].join = "or"
    /\ Unpaged(params[1])
    /\ [params[2] EXCEPT !.join = params[1].join] = params[1]

\* C19: for the same filters and store, every primary key returned under
\* $join=and is returned under $join=or.
C19_AndWithinOr ==
    AndAndOr => Keys(results[1]) \subseteq Keys(results[2])

\* Two filters on a store of two records: 'and' returned one key, 'or'
\* both.
C19_Witness ==
    /\ AndAndOr
    /\ Len(params[1].filters) = 2
    /\ Len(results[1]) = 1
    /\ Cardinality(Keys(results[2])) = 2

\* Query 2 has the filters of query 1 in the opposite order, and the same
\* other parameters; both are resolved.
Reordered ==
    /\ Resolved(1) /\ Resolved(2)
    /\ Len(params[1].filters) >= 2
    /\ params[2] = [params[1] EXCEPT !.filters = Reverse(@)]

\* C20: the result list of a query does not depend on the order of its
\* filter parameters, under either join and for any store.
C20_OrderIndependent ==
    Reordered => results[1] = results[2]

\* Query 2 is query 1 run again: the same parameters on the same store.
SameQueryTwice == params[1] = params[2]

\* C21: for fixed store contents and parameters, every order in which the
\* success events of the outstanding cursor requests arrive leads to the
\* same result list and the same returned value: two runs of one query
\* agree, ordering included.
C21_Deterministic ==
    SameQueryTwice
    => /\ (Resolved(1) /\ Resolved(2)) => results[1] = results[2]
       /\ (Returned(1) /\ Returned(2)) => ret[1] = ret[2]
       /\ (Settled(1) /\ pc[2] \notin {"idle", "running"}) => pc[1] = pc[2]

\* Both runs of an 'or' query with two cursors have returned, each the two
\* records of the store.
C21_Witness ==
    /\ SameQueryTwice
    /\ Returned(1) /\ Returned(2)
    /\ JoinOf(params[1]) = "or"
    /\ Len(queries[1]) = 2
    /\ Len(ret[2].objects) = 2

\* C22: on every path out of the merge (exhaustion, early stop by $to or
\* $limit, error) no cursor request of the query is left outstanding and
\* the connection obtained for the query is closed by the time the promise
\* query() returns is settled.
C22_Released ==
    \A q \in QIds :
        Settled(q)
        => /\ cx[q] = "closed"
           /\ \A i \in DOMAIN req[q] : ~ req[q][i]

\* C23: when cancellation is signalled while a query waits (for a cursor
\* or for the objects of its keys), the query delivers no result: its
\* promise fails with a cancellation error instead.
C23_CancelStopsQuery ==
    \A q \in QIds : cancelled[q] => ~ Returned(q)

\* The value of the last entry of a query string with the name index$test.
LastValue(entries, index, test) ==
    LET i == CHOOSE i \in DOMAIN entries :
                 /\ entries[i].index = index /\ entries[i].test = test
                 /\ \A j \in (i + 1)..Len(entries) :
                        ~ (entries[j].index = index /\ entries[j].test = test)
    IN  entries[i].value

\* C24: when the parameters are a query string in which a name occurs
\* several times, the value the query uses for it is that of its last
\* occurrence.
C24_LastOccurrenceWins ==
    \A q \in QIds :
        (params[q].string /\ pc[q] # "idle")
        => \A i \in DOMAIN params[q].filters :
              LET f == params[q].filters[i]
              IN  f.value = LastValue(params[q].entries, f.index, f.test)

\* The kind of cursor a target asks for: the primary key cursor for the key
\* path of the store, the index cursor for the name of an index, a scan for
\* anything else.
KindOf(target) ==
    IF target = keyPath THEN "pk"
    ELSE IF target \in indexNames THEN "index"
    ELSE "scan"

\* C25: every filter gets a cursor chosen by its target alone: a primary
\* key cursor for the key path, an index cursor on a declared index, a scan
\* over all rows for anything else; a target that names no index raises no
\* error.
C25_ClassifiedByTarget ==
    \A q \in QIds :
        /\ pc[q] \notin {"hung", "rejected"}
        /\ pc[q] # "idle" =>
              /\ {queries[q][i].index : i \in DOMAIN queries[q]}
                    = {params[q].filters[i].index : i \in DOMAIN params[q].filters}
              /\ \A i \in DOMAIN queries[q] :
                    LET qo == queries[q][i]
                    IN  /\ qo.kind = KindOf(qo.index)
                        /\ qo.kind = "scan" <=> qo.mode = "scan"
                        /\ qo.kind = "scan" <=> qo.match # NoMatch
                        /\ qo.kind = "scan" => qo.rows = idbOpenPK(store, NullTerm)
                        /\ qo.kind = "index"
                              => qo.rows = idbOpenIndex(store, qo.index, qo.term)

\* A query with a filter of each kind but the primary key's has returned:
\* one on the index and one on a path no record has.
C25_Witness ==
    /\ Returned(1)
    /\ Len(queries[1]) = 2
    /\ queries[1][1].kind = "index"
    /\ queries[1][2].kind = "scan" /\ queries[1][2].index = OtherPath
    /\ store # {}

\* The primary keys of the records that satisfy every filter, in ascending
\* order.
AscendingKeysOfAll(fs) ==
    LET rows == SortPK({r \in store : \A i \in DOMAIN fs : Satisfies(r, fs[i])})
    IN  [i \in DOMAIN rows |-> rows[i].pk]

\* A resolved query without paging whose only filter is on a target of one
\* of the kinds.
SingleFilterOn(q, kinds) ==
    /\ Resolved(q)
    /\ Unpaged(params[q])
    /\ Len(params[q].filters) = 1
    /\ KindOf(params[q].filters[1].index) \in kinds

\* C26: a query with a single filter on the primary key or on the index
\* returns exactly the records whose key there equals, starts with, is at
\* least or is at most the value, in ascending primary key order.
C26_KeyFilterResult ==
    \A q \in QIds :
        SingleFilterOn(q, {"pk", "index"})
        => results[q] = AscendingKeysOfAll(params[q].filters)

\* C27: a query with a single filter on a property path (a scan) returns
\* exactly the records whose value at the path satisfies the test, in
\* ascending primary key order, and the merge is only ever notified of rows
\* that match.
C27_ScanFilterResult ==
    \A q \in QIds :
        /\ SingleFilterOn(q, {"scan"})
           => results[q] = AscendingKeysOfAll(params[q].filters)
        /\ \A i \in DOMAIN queries[q] :
              LET qo == queries[q][i]
              IN  (qo.kind = "scan" /\ qo.cursor = "cursor" /\ ~ req[q][i])
                  => Match(qo, qo.rows[qo.pos])

\* C28: a record on which the path of a scan filter does not resolve is
\* matched by none of the tests value, prefix, from and to: it is not in
\* the result of a query with that filter alone.
C28_AbsentNeverMatches ==
    \A q \in QIds :
        SingleFilterOn(q, {"scan"})
        => \A r \in store :
              getPath(r, params[q].filters[1].index) = Undefined
              => r.pk \notin Keys(results[q])

\* C29: if a cursor request of a query reports an error, the promise of
\* the query fails with it and no result list is delivered.
C29_ErrorAborts ==
    \A q \in QIds :
        failed[q] => (pc[q] = "rejected" /\ ~ Returned(q))

\* C30: two queries that run at the same time on one store share no state
\* of the merge: under any interleaving of the events of their cursors the
\* promise of each ends as it does, and with the result list it has, when
\* the query runs alone, and the value returned is formatted from that
\* list.
C30_NoInterference ==
    \A q \in QIds :
        LET alone == RunAlone(store, params[q])
        IN  /\ pc[q] \notin {"idle", "running"}
               => (pc[q] = alone.pc /\ results[q] = alone.results)
            /\ Returned(q)
               => ret[q] \in Formatted(params[q], alone.results,
                                       idbReadAll(store, alone.results))

\* Two different queries called at once have both returned, each its own
\* result.
C30_Witness ==
    /\ ~ serial
    /\ Returned(1) /\ Returned(2)
    /\ params[1] # params[2]
    /\ Len(results[1]) >= 1 /\ Len(results[2]) >= 2
    /\ results[1] # results[2]

\* The rows the cursor of a query has been on so far, in the order it was
\* on them.
Visited(qo) == SubSeq(qo.rows, 1, Min2(qo.pos, Len(qo.rows)))

\* C31: every cursor of a query moves through its rows in ascending
\* primary key order: the primary key of the row it is on after an advance
\* is never lower than that of the row it was on before.
C31_CursorsAscendByPrimaryKey ==
    \A q \in QIds : \A i \in DOMAIN queries[q] :
        LET seen == Visited(queries[q][i])
        IN  \A j \in 2..Len(seen) : cmp(seen[j - 1].pk, seen[j].pk) <= 0

\* The request of the i-th query of q reports to onsuccess in this step:
\* its cursor has moved and the handler of the request passes the event on.
Reports(q, i) ==
    /\ req[q][i]
    /\ queries'[q][i] # queries[q][i]
    /\ ~ Skipped(queries'[q][i])

\* onsuccess of q takes a step of the merge in this step: the report is
\* the last one it waits for.
StepTaken(q) == pending[q] = 1 /\ \E i \in DOMAIN req[q] : Reports(q, i)

\* The cursors a step has advanced: no request is outstanding when the
\* step is taken, so they are the ones with a request afterwards.
Advanced(q) == {i \in DOMAIN req'[q] : req'[q][i]}

\* The live cursors of q as the step finds them, and the ones among them
\* on the lowest primary key.
Live(q) == {i \in DOMAIN queries'[q] : ~ isComplete(queries'[q][i])}
Lowest(q) ==
    {i \in Live(q) : \A j \in Live(q) :
        cmp(primaryKey(queries'[q][i]), primaryKey(queries'[q][j])) <= 0}
LiveKeys(q) == {primaryKey(queries'[q][i]) : i \in Live(q)}

\* Nothing is emitted in this step.
NothingEmitted(q) ==
    results'[q] = results[q] /\ count'[q] = count[q] /\ prevKey'[q] = prevKey[q]

\* The key k is the match of this step: no other key is appended or
\* becomes the previous key, and k is the previous key afterwards.
MatchTaken(q, k) ==
    /\ results'[q] \in {results[q], Append(results[q], k)}
    /\ prevKey'[q] = k

\* C32: with the 'and' join a step of the merge does one of three things.
\* When a cursor is complete the query ends: nothing is emitted and no
\* cursor is advanced.  When all cursors are on one primary key that key
\* is the match, all cursors are advanced and as many reports are awaited.
\* Otherwise there is no match, one cursor on the lowest primary key is
\* advanced and one report is awaited.
AndStep(q) ==
    LET n == Len(queries'[q])
    IN  IF Live(q) # DOMAIN queries'[q]
        THEN /\ pc'[q] = "resolved"
             /\ NothingEmitted(q)
             /\ Advanced(q) = {}
        ELSE IF Cardinality(LiveKeys(q)) = 1
        THEN /\ \A k \in LiveKeys(q) : MatchTaken(q, k)
             /\ Advanced(q) = Live(q)
             /\ pending'[q] = n
             /\ pc'[q] = "running"
        ELSE /\ NothingEmitted(q)
             /\ Cardinality(Advanced(q)) = 1
             /\ Advanced(q) \subseteq Lowest(q)
             /\ pending'[q] = 1
             /\ pc'[q] = "running"

C32_AndStep ==
    [][\A q \in QIds :
          StepTaken(q) /\ JoinOf(params[q]) = "and" /\ Unpaged(params[q])
          => AndStep(q)]_vars

\* A query of two or more cursors joined by 'and' has ended after steps
\* of all three kinds: it has a match, and a cursor that is not a scan has
\* been advanced past a row that is no match.
C32_Witness ==
    /\ JoinOf(params[1]) = "and"
    /\ pc[1] = "resolved"
    /\ Len(queries[1]) >= 2
    /\ Len(results[1]) >= 1
    /\ \E i \in DOMAIN queries[1] :
          /\ queries[1][i].kind # "scan"
          /\ \E j \in 1..(Len(Visited(queries[1][i])) - 1) :
                queries[1][i].rows[j].pk \notin Keys(results[1])

\* The number of times the key k is in the list seq.
Occurrences(seq, k) == Cardinality({j \in DOMAIN seq : seq[j] = k})

\* With the 'or' join a step ends the query when no cursor is live, and
\* otherwise takes the lowest primary key as the match, advances one
\* cursor that is on it, and awaits one report.
OrStep(q) ==
    IF Live(q) = {}
    THEN /\ pc'[q] = "resolved"
         /\ NothingEmitted(q)
         /\ Advanced(q) = {}
    ELSE /\ \A i \in Lowest(q) : MatchTaken(q, primaryKey(queries'[q][i]))
         /\ Cardinality(Advanced(q)) = 1
         /\ Advanced(q) \subseteq Lowest(q)
         /\ pending'[q] = 1
         /\ pc'[q] = "running"

\* Every step of an 'or' query is as OrStep says.
OrSteps ==
    [][\A q \in QIds :
          StepTaken(q) /\ JoinOf(params[q]) = "or" /\ Unpaged(params[q])
          => OrStep(q)]_vars

\* The primary keys that two or more live cursors are on together at a
\* step of the merge.
SharedNow(qs) ==
    {primaryKey(qs[i]) : i \in {i \in DOMAIN qs :
        /\ ~ isComplete(qs[i])
        /\ \E j \in DOMAIN qs :
              /\ j # i
              /\ ~ isComplete(qs[j])
              /\ primaryKey(qs[j]) = primaryKey(qs[i])}}

\* The keys shared at some step of the merge, from the moment the requests
\* of the cursors in continued are outstanding to the end of the query.
RECURSIVE SharedKeys(_, _, _, _, _, _)
SharedKeys(p, qs, continued, prev, cnt, res) ==
    LET qs1 == [i \in DOMAIN qs |-> IF i \in continued THEN Surface(qs[i]) ELSE qs[i]]
        st  == MergeStep(p, qs1, prev, cnt, res)
    IN  IF st.inc.threw \/ st.done THEN SharedNow(qs1)
        ELSE SharedNow(qs1) \cup
             SharedKeys(p, qs1, st.inc.continued, st.prevKey, st.count, st.results)

SharedKeysOf(objStore, p) ==
    LET qc == QueryCursors(p.filters, [queries |-> <<>>, threw |-> FALSE])
    IN  SharedKeys(p, Open(objStore, qc.queries), DOMAIN qc.queries,
                   Undefined, 0, <<>>)

\* C33: with the 'or' join a step ends the query when no live cursor
\* remains and otherwise matches the lowest primary key and advances one
\* cursor on it (OrSteps); a key that several cursors are on together at
\* some step is in the result list of the query once only.
C33_SharedKeyEmittedOnce ==
    \A q \in QIds :
        /\ pc[q] = "resolved"
        /\ JoinOf(params[q]) = "or"
        /\ Len(queries[q]) >= 2
        => \A k \in SharedKeysOf(store, params[q]) :
              Occurrences(results[q], k) <= 1

\* The requests of q that have an event outstanding.
Outstanding(q) == {i \in DOMAIN req[q] : req[q][i]}

\* While q is running, pending is the number of reports it waits for.
PendingCounts(q) ==
    pc[q] = "running"
    => pending[q] >= 1 /\ pending[q] = Cardinality(Outstanding(q))

\* C34: a step of the merge is taken only when no request of the query's
\* cursors is outstanding: the report that leads to the step is the only
\* one awaited (so the first step comes after the first report of every
\* cursor opened, a later one after the report of every cursor the step
\* before has advanced); while the query is running, pending is the number
\* of reports still awaited.
C34_StepWhenAllReported ==
    [][\A q \in QIds :
          /\ PendingCounts(q)
          /\ PendingCounts(q)'
          /\ StepTaken(q)
             => /\ Cardinality(Outstanding(q)) = 1
                /\ \A i \in DOMAIN queries'[q] :
                      queries'[q][i].cursor # "undefined"]_vars

\* An 'and' query of two cursors has had a match and has advanced both
\* cursors; one of them has reported, and the query waits for the report
\* of the other before it takes its next step.
C34_Witness ==
    /\ pc[1] = "running"
    /\ JoinOf(params[1]) = "and"
    /\ Len(queries[1]) = 2
    /\ Len(results[1]) = 1
    /\ pending[1] = 1
    /\ \E i, j \in DOMAIN queries[1] :
          /\ ~ req[1][i] /\ queries[1][i].pos = 2
          /\ req[1][j] /\ queries[1][j].pos = 1

\* The record the cursor of a query is on, its primary key, and the key of
\* the cursor: the record's key on the index for a cursor on an index.
Record(qo) == qo.rows[qo.pos]
IndexCursor(qo) == qo.kind = "index"
KeyOf(qo) == IF IndexCursor(qo) THEN getPath(Record(qo), qo.index) ELSE Record(qo).pk

\* The cursors of q the step finds on a record within their filter.
OnRecord(q) ==
    {i \in DOMAIN queries'[q] :
        LET qo == queries'[q][i]
        IN  /\ qo.cursor = "cursor"
            /\ qo.mode = "prefix" => startsWith(KeyOf(qo), qo.prefix)}

\* C35: a cursor on an index gives the merge the primary key of the record
\* it is on, never the record's key on the index.  At every step of a
\* query that has a cursor on an index: a key emitted is the primary key
\* of the record every advanced cursor is on; a cursor advanced alone is
\* on the record with the lowest primary key; with the 'and' join there is
\* a match exactly when the records of all cursors have one primary key;
\* the key on the index decides only whether a prefix cursor is complete.
C35_IndexCursorGivesPrimaryKey ==
    [][\A q \in QIds :
          /\ StepTaken(q)
          /\ Unpaged(params[q])
          /\ \E i \in DOMAIN queries'[q] : IndexCursor(queries'[q][i])
          => LET qs == queries'[q]
                 pks == {Record(qs[i]).pk : i \in OnRecord(q)}
             IN  /\ Advanced(q) \subseteq OnRecord(q)
                 /\ results'[q] # results[q]
                    => \E i \in Advanced(q) :
                          results'[q] = Append(results[q], Record(qs[i]).pk)
                 /\ \A i \in Advanced(q) :
                       \/ \A j \in OnRecord(q) :
                             cmp(Record(qs[i]).pk, Record(qs[j]).pk) <= 0
                       \/ Advanced(q) = OnRecord(q) /\ Cardinality(pks) = 1
                 /\ JoinOf(params[q]) = "and"
                    => (Advanced(q) = DOMAIN qs
                        <=> OnRecord(q) = DOMAIN qs /\ Cardinality(pks) = 1)
                 /\ JoinOf(params[q]) = "and" /\ Cardinality(pks) > 1
                    => NothingEmitted(q)]_vars

\* A query has returned the primary key of a record that a prefix cursor
\* on the index has been on: a primary key that does not start with the
\* prefix, of a record whose key on the index does.
C35_Witness ==
    /\ pc[1] = "resolved"
    /\ \E i \in DOMAIN queries[1] :
          LET qo == queries[1][i]
          IN  /\ IndexCursor(qo) /\ qo.mode = "prefix"
              /\ \E j \in 1..Len(Visited(qo)) :
                    /\ qo.rows[j].pk \in Keys(results[1])
                    /\ startsWith(qo.rows[j].group, qo.prefix)
                    /\ ~ startsWith(qo.rows[j].pk, qo.prefix)

\* The cursor of the i-th query of q is a prefix cursor that has stopped:
\* it has reported, and it is exhausted or on a record whose key does not
\* start with the prefix.
Stopped(q, i) ==
    LET qo == queries[q][i]
    IN  /\ qo.mode = "prefix"
        /\ ~ req[q][i]
        /\ qo.cursor # "undefined"
        /\ qo.cursor = "cursor" => ~ startsWith(KeyOf(qo), qo.prefix)

\* ... and it has stopped on a record.
StoppedOnRow(q, i) == Stopped(q, i) /\ queries[q][i].cursor = "cursor"

\* C36 as stated: the primary key of the record a prefix cursor has stopped
\* on is never emitted as a match.
C36_StoppedRowNeverEmitted ==
    \A q \in QIds : \A i \in DOMAIN queries[q] :
        StoppedOnRow(q, i) => Record(queries[q][i]).pk \notin Keys(results[q])

\* C36: a prefix cursor is complete as soon as it is exhausted or on a
\* record whose key does not start with the prefix.  From then on it is
\* never advanced (it stays where it is, with no request outstanding), an
\* 'and' query ends at the step that finds it so, and it is not among the
\* live cursors: a key emitted at a step is the primary key of the record
\* of a cursor that has not stopped, so that the record a prefix cursor
\* has stopped on is emitted only when another cursor is on it too.
C36_PrefixCursorStops ==
    [][\A q \in QIds :
          /\ \A i \in DOMAIN queries[q] :
                Stopped(q, i)
                => Stopped(q, i)' /\ queries'[q][i] = queries[q][i]
          /\ StepTaken(q)
             => /\ JoinOf(params[q]) = "and"
                   /\ (\E i \in DOMAIN queries'[q] :
                          queries'[q][i].mode = "prefix"
                          /\ i \notin OnRecord(q))
                   => pc'[q] = "resolved" /\ NothingEmitted(q)
                /\ results'[q] # results[q]
                   => \E j \in OnRecord(q) :
                         results'[q] = Append(results[q], Record(queries'[q][j]).pk)]_vars

\* An 'or' query has gone on after a prefix cursor stopped on a record
\* that does not start with the prefix, and has ended with a result
\* without the primary key of that record.
C36_Witness ==
    /\ pc[1] = "resolved"
    /\ JoinOf(params[1]) = "or"
    /\ Len(results[1]) >= 1
    /\ \E i \in DOMAIN queries[1] :
          /\ StoppedOnRow(1, i)
          /\ Record(queries[1][i]).pk \notin Keys(results[1])
          /\ queries[1][i].pos >= 2

\* The scan cursor of the i-th query of q moves in this step.
ScanMoves(q, i) ==
    queries[q][i].kind = "scan" /\ queries'[q][i] # queries[q][i]

\* Nothing of the merge of q changes in this step.
NotNotified(q) ==
    /\ pending'[q] = pending[q] /\ pc'[q] = pc[q]
    /\ NothingEmitted(q)

\* onsuccess of q is called once in this step: it counts the report, or
\* takes the step the report is the last one awaited for.
NotifiedOnce(q) ==
    \/ pending[q] > 1 /\ pending'[q] = pending[q] - 1 /\ pc'[q] = pc[q]
                      /\ NothingEmitted(q)
    \/ pending[q] = 1 /\ pending'[q] \in {-1} \cup 1..Len(queries[q])

\* C37: the opening of a scan cursor and every advance of it lead to
\* exactly one notification of the merge.  The cursor moves only while its
\* request is outstanding, one row at each event; on a row that does not
\* match it moves on by itself and the merge is not notified and still
\* awaits the report; on a row that matches, or at the end of the scan,
\* the merge is notified once and the request is no longer outstanding
\* unless the step then taken advances the cursor again.
C37_ScanNotifiesOnce ==
    [][\A q \in QIds : \A i \in DOMAIN queries[q] :
          ScanMoves(q, i)
          => LET qo == queries'[q][i]
             IN  /\ req[q][i]
                 /\ qo.pos = queries[q][i].pos + 1
                 /\ IF qo.cursor = "cursor" /\ ~ Match(qo, Record(qo))
                    THEN /\ NotNotified(q)
                         /\ req'[q] = req[q]
                    ELSE /\ NotifiedOnce(q)
                         /\ req'[q][i] => StepTaken(q) /\ i \in OnRecord(q)]_vars

\* A scan cursor has moved past a row that does not match, has notified
\* the merge on a later row that matches, and the query has returned that
\* row's key alone.
C37_Witness ==
    /\ pc[1] = "resolved"
    /\ \E i \in DOMAIN queries[1] :
          LET qo == queries[1][i]
          IN  /\ qo.kind = "scan"
              /\ Len(qo.rows) >= 2
              /\ ~ Match(qo, qo.rows[1])
              /\ Match(qo, qo.rows[2])
              /\ results[1] = <<qo.rows[2].pk>>

\* The candidate matches of the step q takes: with 'and' the key all
\* cursors are on, with 'or' the lowest key a live cursor is on.
Candidates(q) ==
    IF JoinOf(params[q]) = "and"
    THEN IF Live(q) = DOMAIN queries'[q] /\ Cardinality(LiveKeys(q)) = 1
         THEN LiveKeys(q) ELSE {}
    ELSE {primaryKey(queries'[q][i]) : i \in Lowest(q)}

\* C38: a candidate match that differs from the key emitted before it is
\* emitted whatever its value, the empty string included: it is counted,
\* becomes the previous key and, with no paging, is appended to the result
\* list.
C38_DefinedMatchEmitted ==
    [][\A q \in QIds :
          StepTaken(q) /\ Unpaged(params[q])
          => \A k \in Candidates(q) :
                k # prevKey[q]
                => /\ results'[q] = Append(results[q], k)
                   /\ count'[q] = count[q] + 1
                   /\ prevKey'[q] = k]_vars

\* A step that does not end the query advances at least one live cursor.
StepAdvances(q) ==
    StepTaken(q)
    => \/ pc'[q] = "resolved"
       \/ Advanced(q) # {} /\ Advanced(q) \subseteq Live(q)

\* A running query has a request outstanding and awaits exactly the
\* reports of the requests that are.
AwaitsRequested(q) ==
    pc[q] = "running"
    => Outstanding(q) # {} /\ pending[q] = Cardinality(Outstanding(q))

\* The number of events the cursors of a list of queries can still have:
\* one for every row ahead of each cursor and one for its end.
RECURSIVE EventsLeft(_)
EventsLeft(qs) ==
    IF qs = <<>> THEN 0
    ELSE Len(Head(qs).rows) + 1 - Head(qs).pos + EventsLeft(Tail(qs))

\* The number of steps query q can still take: its call, the events of its
\* cursors, and its return.
StepsLeft(q) ==
    IF pc[q] = "idle"
    THEN Len(params[q].filters) * (Cardinality(store) + 1) + 2
    ELSE EventsLeft(queries[q]) + (IF Returned(q) THEN 0 ELSE 1)

C40_NothingAfterResolve ==
    [][\A q \in QIds :
          pc[q] = "resolved"
          => /\ pc'[q] = "resolved"
             /\ NothingEmitted(q)
             /\ \A i \in DOMAIN req'[q] : req'[q][i] => req[q][i]
             /\ \A i \in DOMAIN queries[q] :
                   queries'[q][i] # queries[q][i] => req[q][i]]_vars

\* An 'and' query with $limit=1 was resolved at its first match with both
\* cursors advanced; both have reported since, and they are on one record
\* again, which has not been matched.
C40_Witness ==
    /\ pc[1] = "resolved"
    /\ JoinOf(params[1]) = "and"
    /\ params[1].limit = Number(1)
    /\ Len(results[1]) = 1
    /\ Len(queries[1]) = 2
    /\ Outstanding(1) = {}
    /\ \A i \in DOMAIN queries[1] :
          /\ queries[1][i].pos = 2
          /\ ~ isComplete(queries[1][i])
    /\ primaryKey(queries[1][1]) = primaryKey(queries[1][2])
    /\ primaryKey(queries[1][1]) \notin Keys(results[1])

====
